---- MODULE Spec2Model ----
(***************************************************************************)
(* elmish-random-generators: the generator engine (generate / map / then / *)
(* next), the numeric factories (float, floatWithPrecision, int, boolean), *)
(* the selection factories (uniform, weighted, constant) and the           *)
(* structural combinators (pair, list).                                    *)
(*                                                                         *)
(* A JS number is an IEEE-754 binary float.  The model keeps the rounding  *)
(* of every arithmetic operation (round to nearest, ties to even) and      *)
(* scales the significand from 53 bits down to Prec bits.  A number is     *)
(* held as an integer count of quanta of 2^-Prec, the grid on which the    *)
(* unit source (Math.random) produces its values.                          *)
(*                                                                         *)
(* Closures are defunctionalised: a Source or a Transformer is a record    *)
(* holding the kind of the arrow function and the variables it captured.   *)
(***************************************************************************)
EXTENDS Integers, Sequences, FiniteSets, TLC

(* ---------------------------- bounds ---------------------------------- *)
Prec == 4          \* significand bits of the scaled-down float
NegSpan == 1       \* float / int are handed bounds from -NegSpan ...
IntHi == 4         \* ... up to IntHi
MaxRest == 2       \* longest `rest` handed to uniform / weighted
MaxWeight == 2     \* weighted is handed weights from -1 up to MaxWeight
MaxLen == 2        \* longest list built by list()
MaxTape == 3       \* most source invocations within one next()
StreamLen == 3     \* values of its orbit a seeded source hands out in a run

(* ------------------------- JS number arithmetic ----------------------- *)
RECURSIVE Pow(_, _)
Pow(b, n) == IF n = 0 THEN 1 ELSE b * Pow(b, n - 1)

Scale == Pow(2, Prec)

\* the number i (an integer) as a count of quanta
N(i) == i * Scale

Abs(a) == IF a < 0 THEN 0 - a ELSE a

\* n/d (n >= 0, d > 0) rounded to the nearest integer, ties to even
RoundHalfEven(n, d) ==
    LET q == n \div d
        r == n % d
    IN  IF 2 * r < d THEN q
        ELSE IF 2 * r > d THEN q + 1
        ELSE IF q % 2 = 0 THEN q ELSE q + 1

\* the spacing (in quanta) of the floats around the magnitude n/d
RECURSIVE Quantum(_, _, _)
Quantum(n, d, q) ==
    IF n < Scale * q * d THEN q ELSE Quantum(n, d, 2 * q)

\* the exact value n/d quanta (d > 0) rounded to a representable float
Fl(n, d) ==
    LET mag == Abs(n)
        q == Quantum(mag, d, 1)
        m == RoundHalfEven(mag, q * d)
    IN  IF n < 0 THEN 0 - (m * q) ELSE m * q

Add(a, b) == Fl(a + b, 1)
Sub(a, b) == Fl(a - b, 1)
Mul(a, b) == Fl(a * b, Scale)
Div(a, b) == IF b < 0 THEN Fl(0 - (a * Scale), 0 - b) ELSE Fl(a * Scale, b)
Floor(a) == (a \div Scale) * Scale
IsInteger(a) == a % Scale = 0

\* 10 ** precision
Pow10(precision) == Fl(N(Pow(10, precision)), 1)

(* ------------------------------ engine -------------------------------- *)
\* results of invoking a Source: a value, an exception, or a tape that ran
\* out before the call finished
Ok(v, used) == [status |-> "ok", val |-> v, used |-> used]
Thrown(used) == [status |-> "throw", val |-> "Uhhh... bad!!!!", used |-> used]
Starved(used, id) == [status |-> "starved", val |-> id, used |-> used]

\* the caller-supplied unit sources: the default Math.random, and a custom
\* source that hands out quarters only
MathRandom == [kind |-> "ext", id |-> "random"]
Quarters == [kind |-> "ext", id |-> "quarters"]

\* simpleSeeded with one seed variable shared by every source it returns
simpleSeeded_m(seed) == [kind |-> "seeded", id |-> 1]

\* simpleSeeded(seed): a closure over its own seed variable; the record names
\* the closure, the state of its seed variable is kept in the variable seed
simpleSeeded(seed) == [kind |-> "seeded", id |-> seed]

\* generate(source): the object holds nothing but the closures over source
generate(source) == [source |-> source]

constant(value) == generate([kind |-> "const", value |-> value])

\* pair with its two generators exchanged
pair_m(leftGenerator, rightGenerator) ==
    generate([kind |-> "pair", left |-> rightGenerator, right |-> leftGenerator])

pair(leftGenerator, rightGenerator) ==
    generate([kind |-> "pair", left |-> leftGenerator, right |-> rightGenerator])

\* list whose loop runs while i <= len
list_m(len, generator) ==
    generate([kind |-> "list", len |-> Add(len, N(1)), generator |-> generator])

list(len, generator) ==
    generate([kind |-> "list", len |-> len, generator |-> generator])

(* ----------------------- pure helpers of the factories ---------------- *)
\* toPrecision rounding to nearest instead of down
toPrecision_m(precision, x) ==
    LET power == Pow10(precision)
    IN  Div(Floor(Add(Mul(x, power), Scale \div 2)), power)

toPrecision(precision, x) ==
    LET power == Pow10(precision)
    IN  Div(Floor(Mul(x, power)), power)

\* rest.reduce((acc, pair) => acc + pair[1], first[1])
RECURSIVE Reduce(_, _, _)
Reduce(rest, acc, i) ==
    IF i > Len(rest) THEN acc ELSE Reduce(rest, Add(acc, rest[i][2]), i + 1)

\* continiousSum leaving the candidate's own weight out of its sum
RECURSIVE continiousSum_m(_, _, _, _)
continiousSum_m(source, target, i, sum) ==
    IF i = Len(source)
    THEN target
    ELSE continiousSum_m(source,
                         target \o << <<source[i + 1][1], sum>> >>,
                         i + 1,
                         Add(sum, source[i + 1][2]))

RECURSIVE continiousSum(_, _, _, _)
continiousSum(source, target, i, sum) ==
    IF i = Len(source)
    THEN target
    ELSE continiousSum(source,
                       target \o << <<source[i + 1][1], Add(source[i + 1][2], sum)>> >>,
                       i + 1,
                       Add(sum, source[i + 1][2]))

\* getByWeight comparing with < instead of <=
RECURSIVE getByWeight_m(_, _, _)
getByWeight_m(source, weight, i) ==
    IF i < Len(source)
    THEN IF weight < source[i + 1][2]
         THEN [status |-> "ok", val |-> source[i + 1][1]]
         ELSE getByWeight_m(source, weight, i + 1)
    ELSE [status |-> "throw", val |-> "Uhhh... bad!!!!"]

RECURSIVE getByWeight(_, _, _)
getByWeight(source, weight, i) ==
    IF i < Len(source)
    THEN IF weight <= source[i + 1][2]
         THEN [status |-> "ok", val |-> source[i + 1][1]]
         ELSE getByWeight(source, weight, i + 1)
    ELSE [status |-> "throw", val |-> "Uhhh... bad!!!!"]

(* ------------------------- calling the closures ----------------------- *)
\* transformer(a) for a transformer returning a plain value
apply(transformer, a) ==
    CASE transformer.kind = "scale" ->       \* f => min + (max - min) * f
            [status |-> "ok",
             val |-> Add(transformer.min, Mul(Sub(transformer.max, transformer.min), a))]
      [] transformer.kind = "toPrecision" ->
            [status |-> "ok", val |-> toPrecision(transformer.precision, a)]
      [] transformer.kind = "gtHalf" ->      \* f => f > .5
            [status |-> "ok", val |-> (a > Scale \div 2)]
      [] transformer.kind = "index" ->       \* i => [first, ...rest][i]
            [status |-> "ok",
             val |-> IF IsInteger(a) /\ 0 <= a /\ a < N(Len(transformer.items))
                     THEN transformer.items[(a \div Scale) + 1]
                     ELSE "undefined"]
      [] transformer.kind = "getByWeight" -> \* x => getByWeight(normalized, x)
            getByWeight(transformer.normalized, a, 0)
      [] transformer.kind = "plusOne" ->     \* caller's x => x + 1
            [status |-> "ok", val |-> Add(a, N(1))]
      [] transformer.kind = "appendO" ->     \* caller's x => x + "O"
            [status |-> "ok", val |-> a \o "O"]

\* transformer(a) for a transformer returning a generator (argument of then)
applyGen(transformer, a) ==
    CASE transformer.kind = "listOf" ->      \* caller's l => list(l, generator)
            list(a, transformer.generator)
      [] transformer.kind = "constantO" ->   \* caller's x => constant(x + "O")
            constant(a \o "O")

\* source(): the value returned and the position reached on the tape of
\* values the unit source hands out
RECURSIVE Invoke(_, _, _)
RECURSIVE FillList(_, _, _, _, _, _)

\* for (let i = 0; i < len; i += 1) result[i] = generator.next()
FillList(len, generator, tape, used, i, result) ==
    IF N(i) < len
    THEN LET r == Invoke(generator.source, tape, used)
         IN  IF r.status = "ok"
             THEN FillList(len, generator, tape, r.used, i + 1, Append(result, r.val))
             ELSE r
    ELSE Ok(result, used)

Invoke(source, tape, used) ==
    CASE source.kind = "ext" ->
            IF used < Len(tape)
            THEN Ok(tape[used + 1], used + 1)
            ELSE Starved(used, source.id)
      [] source.kind = "seeded" ->           \* () => { seed = ...; return ... }
            \* tape is the orbit of the seed, used[id] the place of closure id on it
            IF used[source.id] < Len(tape)
            THEN Ok(tape[used[source.id] + 1],
                    [used EXCEPT ![source.id] = @ + 1])
            ELSE Starved(used, source.id)
      [] source.kind = "const" ->            \* () => value
            Ok(source.value, used)
      [] source.kind = "mapped" ->           \* () => transformer(source())
            LET a == Invoke(source.source, tape, used)
            IN  IF a.status = "ok"
                THEN LET b == apply(source.transformer, a.val)
                     IN  [status |-> b.status, val |-> b.val, used |-> a.used]
                ELSE a
      [] source.kind = "bound" ->            \* () => transformer(source()).next()
            LET a == Invoke(source.source, tape, used)
            IN  IF a.status = "ok"
                THEN Invoke(applyGen(source.transformer, a.val).source, tape, a.used)
                ELSE a
      [] source.kind = "pair" ->             \* () => [left.next(), right.next()]
            LET l == Invoke(source.left.source, tape, used)
            IN  IF l.status = "ok"
                THEN LET r == Invoke(source.right.source, tape, l.used)
                     IN  IF r.status = "ok" THEN Ok(<<l.val, r.val>>, r.used) ELSE r
                ELSE l
      [] source.kind = "list" ->
            FillList(source.len, source.generator, tape, used, 0, <<>>)

\* obj.next = () => source()
next(g, tape) == Invoke(g.source, tape, 0)

(* ----------------------------- combinators ---------------------------- *)
\* map that drops the transformer
map_m(g, transformer) == g

map(g, transformer) ==
    generate([kind |-> "mapped", source |-> g.source, transformer |-> transformer])

\* boolean reading its source twice in every next()
boolean_m(source) == pair(generate(source), generate(source))

\* then that picks the child generator once, when it is built
then_m(g, transformer) == applyGen(transformer, next(g, <<0>>).val)

then(g, transformer) ==
    generate([kind |-> "bound", source |-> g.source, transformer |-> transformer])

(* --------------------------- numeric factories ------------------------ *)
float(min, max, source) ==
    map(generate(source), [kind |-> "scale", min |-> min, max |-> max])

floatWithPrecision(min, max, precision, source) ==
    map(float(min, max, source), [kind |-> "toPrecision", precision |-> precision])

int(min, max, source) == floatWithPrecision(min, Add(max, N(1)), 0, source)

boolean(source) == map(generate(source), [kind |-> "gtHalf"])

(* -------------------------- selection factories ----------------------- *)
uniform(first, rest, source) ==
    IF Len(rest) = 0
    THEN constant(first)
    ELSE map(int(0, N(Len(rest)), source),
             [kind |-> "index", items |-> <<first>> \o rest])

weighted(first, rest, source) ==
    IF Len(rest) = 0
    THEN constant(first[1])
    ELSE LET sum == Reduce(rest, first[2], 1)
             normalized == continiousSum(<<first>> \o rest, <<>>, 0, 0)
         IN  map(float(0, sum, source),
                 [kind |-> "getByWeight", normalized |-> normalized])

(* ------------------------------ inputs -------------------------------- *)
\* the values Math.random can hand out: k / 2^Prec, 0 <= k < 2^Prec
USet == 0 .. (Scale - 1)

\* the values a source hands out
Values(id) ==
    IF id = "random" THEN USet ELSE {k * (Scale \div 4) : k \in 0 .. 3}

IntRange == {N(i) : i \in (0 - NegSpan) .. IntHi}
Items == {"a", "b"}
Weights == {N(i) : i \in (0 - 1) .. MaxWeight}
Names == <<"a", "b", "c", "d">>

SeqsUpTo(S, n) == UNION {[1 .. k -> S] : k \in 0 .. n}

\* candidates of weighted: the i-th candidate is named Names[i]
Candidates(ws) == [i \in 1 .. Len(ws) |-> <<Names[i], ws[i]>>]

\* generators handed to pair, list, map and then
Children ==
    {int(0, N(1), Quarters), int(N(1), N(2), Quarters),
     boolean(Quarters), constant("X")}

NumChildren == {int(0, N(1), Quarters), int(N(1), N(2), Quarters)}

StrChildren == {constant("X"), constant("O")}

PairCases == (NumChildren \X NumChildren) \cup (StrChildren \X StrChildren)

MapCases ==
    {<<g, [kind |-> "plusOne"]>> : g \in NumChildren}
    \cup {<<g, [kind |-> "appendO"]>> : g \in StrChildren}

ThenCases ==
    {<<g, [kind |-> "listOf", generator |-> c]>> : g \in NumChildren, c \in Children}
    \cup {<<constant("X"), [kind |-> "constantO"]>>}

\* the tapes on which next() of g runs to completion, each cut where the
\* call stops reading
RECURSIVE Complete(_, _)
Complete(g, tape) ==
    LET r == next(g, tape)
    IN  IF r.status = "starved"
        THEN IF Len(tape) < MaxTape
             THEN UNION {Complete(g, Append(tape, u)) : u \in Values(r.val)}
             ELSE {}
        ELSE {tape}

(* ---------------------------- state machine --------------------------- *)
VARIABLES
    built,   \* the factory or combinator call that built gen, with its arguments
    gen,     \* the generator under use
    out,     \* what the last next() on gen did
    draws,   \* the values the unit source returned during the last next()
    desc,    \* per slot: the call that built the generator held there
    gens,    \* per slot: a generator built on a seeded source
    orbit,   \* the values sin drives the seed through, from the seed given
    seed,    \* per seeded source: how far its seed variable has moved on orbit
    calls,   \* per seeded source: the next() calls made on its one-draw generators
    other,   \* whether next() was called on any other kind of generator
    last     \* the slot of the last next() and what it did

vars == <<built, gen, out, draws, desc, gens, orbit, seed, calls, other, last>>

seededVars == <<desc, gens, orbit, seed, calls, other, last>>

Slots == {1, 2}
SeedIds == {1, 2}      \* the closures simpleSeeded returned, in order of creation

NoOut == [status |-> "none", val |-> "none", used |-> 0]

Init ==
    /\ built = [op |-> "none"]
    /\ gen = "none"
    /\ out = NoOut
    /\ draws = <<>>
    /\ desc = [i \in Slots |-> [op |-> "none"]]
    /\ gens = [i \in Slots |-> "none"]
    /\ orbit = <<>>
    /\ seed = [s \in SeedIds |-> 0]
    /\ calls = [s \in SeedIds |-> 0]
    /\ other = FALSE
    /\ last = [slot |-> 0, out |-> NoOut]

\* a run evaluates one construction expression and then uses its generator
Build(b, g) ==
    /\ built.op = "none"
    /\ built' = b
    /\ gen' = g
    /\ out' = NoOut
    /\ draws' = <<>>
    /\ UNCHANGED seededVars

BuildFloat ==
    \E min \in IntRange, max \in IntRange :
        Build([op |-> "float", min |-> min, max |-> max], float(min, max, MathRandom))

BuildFloatWithPrecision ==
    \E min \in IntRange, max \in IntRange, precision \in 0 .. 1 :
        Build([op |-> "floatWithPrecision", min |-> min, max |-> max,
               precision |-> precision],
              floatWithPrecision(min, max, precision, MathRandom))

BuildInt ==
    \E min \in IntRange, max \in IntRange :
        Build([op |-> "int", min |-> min, max |-> max], int(min, max, MathRandom))

BuildBoolean == Build([op |-> "boolean"], boolean(MathRandom))

BuildUniform ==
    \E first \in Items, rest \in SeqsUpTo(Items, MaxRest) :
        Build([op |-> "uniform", first |-> first, rest |-> rest],
              uniform(first, rest, MathRandom))

BuildWeighted ==
    \E ws \in SeqsUpTo(Weights, MaxRest + 1) :
        /\ Len(ws) >= 1
        /\ LET cs == Candidates(ws)
           IN  Build([op |-> "weighted", first |-> cs[1], rest |-> Tail(cs)],
                     weighted(cs[1], Tail(cs), MathRandom))

BuildConstant ==
    \E value \in {"X", "O"} : Build([op |-> "constant", value |-> value], constant(value))

BuildPair ==
    \E c \in PairCases :
        Build([op |-> "pair", left |-> c[1], right |-> c[2]], pair(c[1], c[2]))

BuildList ==
    \E n \in 0 .. MaxLen, g \in Children :
        Build([op |-> "list", len |-> N(n), generator |-> g], list(N(n), g))

BuildMap ==
    \E c \in MapCases :
        Build([op |-> "map", g |-> c[1], transformer |-> c[2]], map(c[1], c[2]))

BuildThen ==
    \E c \in ThenCases :
        Build([op |-> "then", g |-> c[1], transformer |-> c[2]], then(c[1], c[2]))

\* gen.next()
Next1 ==
    /\ built.op # "none"
    /\ \E tape \in Complete(gen, <<>>) :
          LET r == next(gen, tape)
          IN  /\ out' = r
              /\ draws' = tape
    /\ UNCHANGED <<built, gen>>
    /\ UNCHANGED seededVars

Next ==
    \/ BuildFloat
    \/ BuildFloatWithPrecision
    \/ BuildInt
    \/ BuildBoolean
    \/ BuildUniform
    \/ BuildWeighted
    \/ BuildConstant
    \/ BuildPair
    \/ BuildList
    \/ BuildMap
    \/ BuildThen
    \/ Next1

Spec == Init /\ [][Next]_vars

(* ----------------- two generators on seeded sources ------------------- *)
\* sin is not computed: the orbit the seed runs through is any sequence of
\* unit values, fixed when the seed is given.  Both closures are created from
\* the same seed, so they run through the same orbit, each at its own place.
OrbitValues == {Scale \div 4, 3 * (Scale \div 4)}
Streams == [1 .. StreamLen -> OrbitValues]

InitSeeded ==
    /\ built = [op |-> "none"]
    /\ gen = "none"
    /\ out = NoOut
    /\ draws = <<>>
    /\ desc = [i \in Slots |-> [op |-> "none"]]
    /\ gens = [i \in Slots |-> "none"]
    /\ orbit \in Streams
    /\ seed = [s \in SeedIds |-> 0]
    /\ calls = [s \in SeedIds |-> 0]
    /\ other = FALSE
    /\ last = [slot |-> 0, out |-> NoOut]

\* const g = <construction expression>, kept in an empty slot
Make(i, d, g) ==
    /\ desc[i].op = "none"
    /\ desc' = [desc EXCEPT ![i] = d]
    /\ gens' = [gens EXCEPT ![i] = g]
    /\ UNCHANGED <<built, gen, out, draws, orbit, seed, calls, other, last>>

MakeFloat ==
    \E i \in Slots, s \in SeedIds :
        Make(i, [op |-> "float", src |-> s], float(0, N(2), simpleSeeded(s)))

MakeFloatWithPrecision ==
    \E i \in Slots, s \in SeedIds :
        Make(i, [op |-> "floatWithPrecision", src |-> s],
             floatWithPrecision(0, N(2), 0, simpleSeeded(s)))

MakeInt ==
    \E i \in Slots, s \in SeedIds :
        Make(i, [op |-> "int", src |-> s], int(0, N(1), simpleSeeded(s)))

MakeBoolean ==
    \E i \in Slots, s \in SeedIds :
        Make(i, [op |-> "boolean", src |-> s], boolean(simpleSeeded(s)))

MakeUniform ==
    \E i \in Slots, s \in SeedIds, rest \in {<<>>, <<"b">>} :
        Make(i, [op |-> "uniform", src |-> s, rest |-> rest],
             uniform("a", rest, simpleSeeded(s)))

MakeWeighted ==
    \E i \in Slots, s \in SeedIds, rest \in {<<>>, << <<"b", N(1)>> >>} :
        Make(i, [op |-> "weighted", src |-> s, rest |-> rest],
             weighted(<<"a", N(1)>>, rest, simpleSeeded(s)))

MakeConstant ==
    \E i \in Slots : Make(i, [op |-> "constant", src |-> 0], constant("X"))

MakePair ==
    \E i \in Slots, s \in SeedIds :
        Make(i, [op |-> "pair", src |-> s],
             pair(int(0, N(1), simpleSeeded(s)), int(0, N(1), simpleSeeded(s))))

MakeList ==
    \E i \in Slots, s \in SeedIds, n \in {0, 2} :
        Make(i, [op |-> "list", src |-> s, len |-> n],
             list(N(n), int(0, N(1), simpleSeeded(s))))

\* const h = g.map(x => x + 1), g the generator of the other slot
MakeMap ==
    \E i \in Slots, j \in Slots :
        /\ i # j
        /\ desc[j].op \in {"float", "floatWithPrecision", "int"}
        /\ Make(i, [op |-> "map", src |-> desc[j].src],
                map(gens[j], [kind |-> "plusOne"]))

MakeThen ==
    \E i \in Slots, s \in SeedIds :
        Make(i, [op |-> "then", src |-> s],
             then(int(0, N(1), simpleSeeded(s)),
                  [kind |-> "listOf", generator |-> boolean(simpleSeeded(s))]))

\* the generators every next() of which reads its source once: float, int,
\* boolean, uniform and weighted with a non-empty rest, and their maps
OneDraw(d) ==
    \/ d.op \in {"float", "floatWithPrecision", "int", "boolean", "map"}
    \/ d.op \in {"uniform", "weighted"} /\ Len(d.rest) > 0

\* gens[i].next()
Call(i) ==
    /\ desc[i].op # "none"
    /\ LET r == Invoke(gens[i].source, orbit, seed)
       IN  /\ r.status # "starved"
           /\ seed' = r.used
           /\ last' = [slot |-> i, out |-> [r EXCEPT !.used = 0]]
    /\ IF OneDraw(desc[i])
       THEN /\ calls' = [calls EXCEPT ![desc[i].src] = @ + 1]
            /\ UNCHANGED other
       ELSE /\ other' = TRUE
            /\ UNCHANGED calls
    /\ UNCHANGED <<built, gen, out, draws, desc, gens, orbit>>

NextSeeded ==
    \/ MakeFloat
    \/ MakeFloatWithPrecision
    \/ MakeInt
    \/ MakeBoolean
    \/ MakeUniform
    \/ MakeWeighted
    \/ MakeConstant
    \/ MakePair
    \/ MakeList
    \/ MakeMap
    \/ MakeThen
    \/ \E i \in Slots : Call(i)

SpecSeeded == InitSeeded /\ [][NextSeeded]_vars

(* ------------------------------- claims ------------------------------- *)
Acted == out.status # "none"

Range(seq) == {seq[i] : i \in 1 .. Len(seq)}

Least(S) == CHOOSE i \in S : \A j \in S : i <= j

\* the number of values one next() of a child generator reads from its source
DrawsPerCall(g) == IF g.source.kind = "const" THEN 0 ELSE 1

\* the inclusive running sum of the weights of the first i candidates
RECURSIVE CumWeight(_, _)
CumWeight(cs, i) == IF i = 0 THEN 0 ELSE Add(CumWeight(cs, i - 1), cs[i][2])

WeightedCandidates == <<built.first>> \o built.rest
WeightedX == Mul(CumWeight(WeightedCandidates, Len(WeightedCandidates)), draws[1])
WeightedHits ==
    {i \in 1 .. Len(WeightedCandidates) : CumWeight(WeightedCandidates, i) >= WeightedX}
WeightsNonNegative ==
    \A i \in 1 .. Len(WeightedCandidates) : WeightedCandidates[i][2] >= 0
WeightedActed == built.op = "weighted" /\ Len(built.rest) > 0 /\ Acted

\* C1: every next() of g.map(f) reads the source of g exactly as one next()
\* of g does, and returns f applied to the value g draws from those same
\* source values; the value depends on the draws of this call only.
MapAppliesTransformerToTheDraw ==
    (built.op = "map" /\ Acted) =>
        LET a == next(built.g, draws)
        IN  /\ a.status = "ok"
            /\ out.status = "ok"
            /\ out.used = a.used
            /\ a.used = Len(draws)
            /\ out.val = apply(built.transformer, a.val).val

MapWitness ==
    /\ built.op = "map"
    /\ built.transformer.kind = "plusOne"
    /\ out.status = "ok"
    /\ out.val = N(3)
    /\ Len(draws) = 1

\* C2: every next() of g.then(f) first draws a from g, then builds f(a), then
\* calls next() once on that generator, reading the source where g stopped,
\* and returns its result; with f = l => list(l, gen) the list returned is as
\* long as the a drawn in this call.
ThenDrawsThenRunsTheChild ==
    (built.op = "then" /\ Acted) =>
        LET a == next(built.g, draws)
        IN  /\ a.status = "ok"
            /\ out = Invoke(applyGen(built.transformer, a.val).source, draws, a.used)
            /\ out.status = "ok"
            /\ out.used = Len(draws)
            /\ built.transformer.kind = "listOf" => N(Len(out.val)) = a.val

ThenWitness ==
    /\ built.op = "then"
    /\ built.transformer.kind = "listOf"
    /\ out.status = "ok"
    /\ Len(out.val) = 2
    /\ Len(draws) = 3

\* C3: for integers min <= max, int(min, max).next() returns an integer n
\* with min <= n <= max.
IntWithinBounds ==
    (built.op = "int" /\ built.min <= built.max /\ Acted) =>
        /\ out.status = "ok"
        /\ IsInteger(out.val)
        /\ built.min <= out.val
        /\ out.val <= built.max

\* C4: int(min, max) with min <= max returns every integer of [min, max] for
\* some source value, and over the 2^Prec equally spaced source values each
\* integer of [min, max] is returned for the same number of them, when the
\* number of integers divides 2^Prec.
IntUniform ==
    (built.op = "int" /\ built.min <= built.max) =>
        LET count == ((built.max - built.min) \div Scale) + 1
            sources(n) == {u \in USet : next(gen, <<u>>).val = N(n)}
        IN  \A n \in (built.min \div Scale) .. (built.max \div Scale) :
                /\ sources(n) # {}
                /\ Scale % count = 0 => Cardinality(sources(n)) = Scale \div count

\* C5: uniform(first, rest).next() returns a member of [first, ...rest], the
\* index drawn lies in 0 .. rest.length, and with an empty rest it returns
\* first without reading the source.
UniformPicksAMember ==
    (built.op = "uniform" /\ Acted) =>
        /\ out.status = "ok"
        /\ out.val \in {built.first} \cup Range(built.rest)
        /\ Len(built.rest) = 0 => (out.val = built.first /\ out.used = 0)
        /\ Len(built.rest) > 0 =>
              LET i == next(int(0, N(Len(built.rest)), MathRandom), draws).val
              IN  /\ out.used = 1
                  /\ IsInteger(i)
                  /\ 0 <= i
                  /\ i <= N(Len(built.rest))
                  /\ out.val = (<<built.first>> \o built.rest)[(i \div Scale) + 1]

UniformWitness ==
    /\ built.op = "uniform"
    /\ Len(built.rest) = 2
    /\ built.first # built.rest[2]
    /\ out.status = "ok"
    /\ draws = <<Scale - 1>>
    /\ out.val = built.rest[2]

\* C6: with a non-empty rest, weighted(first, rest).next() reads one source
\* value u and, when it returns, returns the value of the first candidate of
\* [first, ...rest] whose inclusive running weight is >= total * u, one of
\* the values supplied.
WeightedPicksFirstReaching ==
    WeightedActed =>
        /\ out.used = 1
        /\ Len(draws) = 1
        /\ out.status = "ok" =>
              /\ WeightedHits # {}
              /\ out.val = WeightedCandidates[Least(WeightedHits)][1]
              /\ out.val \in {WeightedCandidates[i][1] : i \in 1 .. Len(WeightedCandidates)}

WeightedWitness ==
    /\ WeightedActed
    /\ Len(built.rest) = 2
    /\ out.status = "ok"
    /\ WeightedX > 0
    /\ WeightedX = CumWeight(WeightedCandidates, 1)
    /\ out.val = "a"

\* C7: with non-negative weights of positive total, weighted(first, rest)
\* .next() never returns a candidate whose weight is 0.
WeightedNeverPicksZeroWeight ==
    (WeightedActed /\ WeightsNonNegative
        /\ CumWeight(WeightedCandidates, Len(WeightedCandidates)) > 0
        /\ out.status = "ok") =>
        \A i \in 1 .. Len(WeightedCandidates) :
            WeightedCandidates[i][1] = out.val => WeightedCandidates[i][2] # 0

\* C8: every next() of list(n, gen) calls gen.next() n times, one after the
\* other, and returns the n results in the order of the calls; with n = 0 it
\* returns the empty sequence and reads nothing.
ListCallsGenInOrder ==
    (built.op = "list" /\ Acted) =>
        LET n == built.len \div Scale
            k == DrawsPerCall(built.generator)
        IN  /\ out.status = "ok"
            /\ Len(out.val) = n
            /\ out.used = n * k
            /\ Len(draws) = n * k
            /\ \A i \in 1 .. n :
                  out.val[i] =
                      next(built.generator, SubSeq(draws, (i - 1) * k + 1, i * k)).val

ListWitness ==
    /\ built.op = "list"
    /\ built.len = N(MaxLen)
    /\ built.generator.source.kind = "mapped"
    /\ out.status = "ok"
    /\ Len(out.val) = MaxLen
    /\ out.val[1] # out.val[MaxLen]

\* C9: every next() of pair(genA, genB) calls genA.next() once, then
\* genB.next() once, and returns [a, b]: on a shared source the left
\* component comes from the earlier draw.
PairCallsLeftThenRight ==
    (built.op = "pair" /\ Acted) =>
        LET kl == DrawsPerCall(built.left)
            kr == DrawsPerCall(built.right)
            l == next(built.left, SubSeq(draws, 1, kl))
            r == next(built.right, SubSeq(draws, kl + 1, kl + kr))
        IN  /\ out.status = "ok"
            /\ out.used = kl + kr
            /\ Len(draws) = kl + kr
            /\ out.val = <<l.val, r.val>>

PairWitness ==
    /\ built.op = "pair"
    /\ built.left = built.right
    /\ Len(draws) = 2
    /\ out.status = "ok"
    /\ out.val[1] < out.val[2]

\* C10: with a non-empty rest and no negative weight, weighted(first, rest)
\* .next() returns a value for every source value; when no candidate's
\* running weight reaches the drawn value, next() throws.
WeightedThrowsOnlyOnExhaustedScan ==
    WeightedActed =>
        /\ WeightsNonNegative => out.status = "ok"
        /\ WeightedHits = {} => out.status = "throw"
        /\ out.status \in {"ok", "throw"}

WeightedNoThrowWitness ==
    /\ WeightedActed
    /\ WeightsNonNegative
    /\ Len(built.rest) = MaxRest
    /\ draws = <<Scale - 1>>
    /\ out.status = "ok"
    /\ out.val = Names[MaxRest + 1]

WeightedThrowReached ==
    /\ WeightedActed
    /\ ~WeightsNonNegative
    /\ out.status = "throw"

\* what generator g returns on its next two calls, the seeds standing at sd
Future(g, ob, sd) ==
    LET r1 == Invoke(g.source, ob, sd)
        r2 == IF r1.status = "ok" THEN Invoke(g.source, ob, r1.used) ELSE r1
    IN  <<r1, r2>>

SameFuture(a, b) ==
    \A k \in 1 .. 2 :
        (a[k].status = "ok" /\ b[k].status = "ok") => a[k].val = b[k].val

\* the step is a next() on the generator of slot i: every step that builds
\* nothing is a call, and a call records its slot
CalledOn(i) == desc' = desc /\ last'.slot = i

\* C11 as stated: a next() on one generator leaves the values every other
\* generator returns from then on as they were.
NextLeavesOtherGeneratorsAlone ==
    [][\A i \in Slots, j \in Slots :
          (i # j /\ desc[j].op # "none" /\ CalledOn(i)) =>
              SameFuture(Future(gens[j], orbit, seed), Future(gens[j], orbit, seed'))]_vars

\* C11 amended: a next() on one generator leaves the values another returns
\* from then on as they were, unless the two were built on the same seeded
\* source (as g and g.map(f) are).
NextLeavesGeneratorsOfOtherSourcesAlone ==
    [][\A i \in Slots, j \in Slots :
          (/\ i # j /\ desc[i].op # "none" /\ desc[j].op # "none"
           /\ desc[i].src # desc[j].src /\ CalledOn(i)) =>
              SameFuture(Future(gens[j], orbit, seed), Future(gens[j], orbit, seed'))]_vars

OtherSourceWitness ==
    /\ last.slot = 1
    /\ desc[1].op = "int"
    /\ desc[2].op = "boolean"
    /\ desc[1].src # desc[2].src
    /\ seed[desc[1].src] = 2
    /\ seed[desc[2].src] = 0

\* C12: no construction reads a source, and as long as next() was called on
\* one-draw generators only (float, int, boolean, uniform and weighted with a
\* non-empty rest, maps over them), each source was read once per next() on
\* its generators.
SourceReadOncePerNext ==
    /\ [](~other => \A s \in SeedIds : seed[s] = calls[s])
    /\ [][desc' # desc => seed' = seed]_vars

OncePerNextWitness ==
    /\ ~other
    /\ desc[1].op = "map"
    /\ desc[2].op = "int"
    /\ last.slot = 1
    /\ calls[desc[1].src] = StreamLen
    /\ seed[desc[1].src] = StreamLen

====
